---- MODULE Spec2Model ----
(***************************************************************************)
(* FinanceGhost frontend: the Ghost Mode log viewer (GhostTerminal).       *)
(*                                                                         *)
(* The viewer is always mounted by App; its isOpen prop is toggled by the  *)
(* toolbar button.  An effect keyed on isOpen opens a WebSocket to the     *)
(* log stream, and its cleanup closes the socket held in wsRef.  Every     *)
(* socket's close handler schedules connect() again after 3000 ms.         *)
(*                                                                         *)
(* Each action below is one browser task: a click with the effect it       *)
(* triggers, one socket event with its handler, or one timer callback.     *)
(***************************************************************************)
EXTENDS Integers, Sequences, FiniteSets, Bags, TLC

\* ------------------------------------------------------------- bounds ----

\* Sockets not yet fully closed plus pending reconnect timers; caps OpenViewer.
MaxConn == 2

\* Socket events (open, close, message) handled in one behaviour.
MaxEvents == 3

\* Log messages that follow the history message in a burst.
BurstLen == 205

\* Clock granularity: Tick advances time by ReconnectDelay \div TicksPerDelay.
TicksPerDelay == 2

\* Calls of a page's load function during one visit of the page.
MaxLoads == 3

\* Copy actions whose timers are pending at the same time.
MaxCopies == 2

\* Tokens in the text of an invoice's errors_json or items_json.
MaxJsonLen == 4

\* Uploads started during one visit of the Upload page.
MaxUploads == 3

\* -------------------------------------------------- program constants ----

\* setTimeout(connect, 3000)
ReconnectDelay == 3000

\* prev.slice(-199): the entries kept in front of an appended one
SliceKeep == 199

\* the rolling window the viewer is documented to keep (SliceKeep + 1)
LogWindow == SliceKeep + 1

\* setTimeout(() => setCopied(false), 2000)
CopiedDelay == 2000

TickMs == ReconnectDelay \div TicksPerDelay

\* ------------------------------------------------------------ strings ----
\* A message is the sequence of its characters, so that String.includes is
\* a real, case-sensitive substring search.

Starting == <<"S","t","a","r","t","i","n","g">>
complete == <<"c","o","m","p","l","e","t","e">>
Complete == <<"C","o","m","p","l","e","t","e">>

MsgStarting == Starting \o <<" ">> \o <<"O","C","R">>
MsgTaskComplete == <<"O","C","R">> \o <<" ">> \o complete
MsgComplete == Complete
MsgCOMPLETED == <<"C","O","M","P","L","E","T","E","D">>
MsgStartingComplete == Starting \o <<" ">> \o complete \o <<" ">> \o <<"s","c","a","n">>

\* String.prototype.includes(pattern)
Includes(s, p) ==
    \E i \in 1..(Len(s) - Len(p) + 1) : SubSeq(s, i, i + Len(p) - 1) = p

\* Array.prototype.slice(-n), n > 0: the last n elements (all when shorter)
SliceLast(seq, n) ==
    IF Len(seq) <= n THEN seq ELSE SubSeq(seq, Len(seq) - n + 1, Len(seq))

\* ------------------------------------------------------------ entries ----

\* new Date().toISOString() of a locally generated entry (one abstract value;
\* server entries carry positive stamps)
LocalStamp == 0

SystemEntry(message, level) ==
    [timestamp |-> LocalStamp, agent |-> "SYSTEM", message |-> message, level |-> level]

SysConnected == SystemEntry(<<"Connected to FinanceGhost Neural Network">>, "success")
SysLost == SystemEntry(<<"Connection lost. Reconnecting...">>, "warning")
SysProcessing(filename) == SystemEntry(<<"Processing: ", filename>>, "info")
SysProcessingComplete == SystemEntry(<<"Processing complete">>, "success")

\* The value a "log" message without a data field appends: JavaScript's
\* undefined, written as a record so that it compares with real entries.
Undefined ==
    [timestamp |-> -1, agent |-> "undefined", message |-> <<>>, level |-> "undefined"]

ServerEntry(t, agent, message) ==
    [timestamp |-> t, agent |-> agent, message |-> message, level |-> "info"]

\* A server-side history of n entries, stamped 1..n
HistoryOf(n) == [i \in 1..n |-> ServerEntry(i, "tax_agent", <<"o","k">>)]

\* ----------------------------------------------------- stream messages ----
\* event.data after JSON.parse.  present says whether the payload field of
\* the message's type (logs for history, data for log) is there at all.

HistoryMsg(present, entries) ==
    [type |-> "history", present |-> present, logs |-> entries, data |-> Undefined]

LogMsg(present, entry) ==
    [type |-> "log", present |-> present, logs |-> <<>>, data |-> entry]

PlainMsg(type) ==
    [type |-> type, present |-> FALSE, logs |-> <<>>, data |-> Undefined]

NoMsg == PlainMsg("")

\* ---------------------------------------------------------------- state ----

SockIds == 1..MaxConn

VARIABLES
    isOpen,              \* App.showGhostTerminal, the viewer's isOpen prop
    sock,                \* readyState of every WebSocket the viewer has created
    wsRef,               \* wsRef.current: a socket id, 0 for null
    timers,              \* pending setTimeout(connect, ...) callbacks: bag of ms left
    isConnected,         \* useState isConnected
    logs,                \* useState logs
    activeAgents,        \* useState activeAgents
    processingStartRef,  \* processingStartRef.current: "null" or "time"
    processingTime,      \* useState processingTime: "null" or "time"
    events,              \* history: socket events handled so far
    ev,                  \* history: the last step taken and its input
    pre,                 \* history: logs and activeAgents before the last step
    atClose              \* history: what the last CloseViewer found

termVars == <<isOpen, sock, wsRef, timers, isConnected, logs, activeAgents,
              processingStartRef, processingTime>>
histVars == <<events, ev, pre, atClose>>

VARIABLES
    build,               \* the bundle served: "development" or "production"
    page,                \* state of the page component the router has mounted
    step,                \* history: the last page handler run and its input
    before               \* history: the page's state before that handler

pageVars == <<build, page, step, before>>
vars == <<termVars, histVars, pageVars>>

Event(op, s, msg) == [op |-> op, sock |-> s, data |-> msg]
Snapshot == [logs |-> logs, activeAgents |-> activeAgents]

TermInit ==
    /\ isOpen = FALSE
    /\ sock = [s \in SockIds |-> "none"]
    /\ wsRef = 0
    /\ timers = EmptyBag
    /\ isConnected = FALSE
    /\ logs = <<>>
    /\ activeAgents = {}
    /\ processingStartRef = "null"
    /\ processingTime = "null"
    /\ events = 0
    /\ ev = Event("init", 0, NoMsg)
    /\ pre = Snapshot
    /\ atClose = [timer |-> FALSE, open |-> FALSE]

\* -------------------------------------------------------------- helpers ----

Live == {s \in SockIds : sock[s] \in {"connecting", "open"}}
Unclosed == {s \in SockIds : sock[s] # "none"}
OpenSockets == {s \in SockIds : sock[s] = "open"}
Pending == BagCardinality(timers)
Due == {r \in BagToSet(timers) : r <= 0}

\* Off by one: keeps a full window in front of the appended entry.
AddLogKeepsWindow(prev, entry) == Append(SliceLast(prev, LogWindow), entry)

\* addSystemLog: setLogs(prev => [...prev.slice(-199), entry])
AddLog(prev, entry) == Append(SliceLast(prev, SliceKeep), entry)

\* Backoff: the delay doubles while the viewer has not connected.
ScheduleReconnectBackoff(t) ==
    t (+) SetToBag({IF isConnected THEN ReconnectDelay ELSE 2 * ReconnectDelay})

\* setTimeout(connect, 3000) in ws.onclose
ScheduleReconnect(t) == t (+) SetToBag({ReconnectDelay})

\* new WebSocket(wsUrl); wsRef.current = ws
FreeSock == CHOOSE s \in SockIds : sock[s] = "none" /\ \A t \in SockIds : t < s => sock[t] # "none"

Connect ==
    /\ sock' = [sock EXCEPT ![FreeSock] = "connecting"]
    /\ wsRef' = FreeSock

\* WebSocket.close(): a connecting or open socket starts closing, otherwise no-op
WsClose(s) ==
    IF sock[s] \in {"connecting", "open"} THEN [sock EXCEPT ![s] = "closing"] ELSE sock

\* ------------------------------------------------------------ lifecycle ----

\* The toolbar button shows the viewer; the isOpen effect runs connect().
OpenViewer ==
    /\ ~isOpen
    /\ Cardinality(Unclosed) + Pending < MaxConn
    /\ isOpen' = TRUE
    /\ Connect
    /\ ev' = Event("OpenViewer", FreeSock, NoMsg)
    /\ pre' = Snapshot
    /\ atClose' = [timer |-> FALSE, open |-> FALSE]
    /\ UNCHANGED <<timers, isConnected, logs, activeAgents, processingStartRef,
                   processingTime, events>>

\* The toolbar button or the viewer's X hides it; the effect's cleanup runs:
\* if (wsRef.current) wsRef.current.close().  Nothing clears a pending timer.
CloseViewer ==
    /\ isOpen
    /\ isOpen' = FALSE
    /\ sock' = IF wsRef # 0 THEN WsClose(wsRef) ELSE sock
    /\ ev' = Event("CloseViewer", wsRef, NoMsg)
    /\ pre' = Snapshot
    /\ atClose' = [timer |-> Pending > 0, open |-> wsRef # 0 /\ sock[wsRef] = "open"]
    /\ UNCHANGED <<wsRef, timers, isConnected, logs, activeAgents, processingStartRef,
                   processingTime, events>>

\* Time passes while no timer is due.
Tick ==
    /\ timers # EmptyBag
    /\ Due = {}
    /\ timers' = [r \in {x - TickMs : x \in BagToSet(timers)} |-> timers[r + TickMs]]
    /\ ev' = Event("Tick", 0, NoMsg)
    /\ pre' = Snapshot
    /\ UNCHANGED <<isOpen, sock, wsRef, isConnected, logs, activeAgents,
                   processingStartRef, processingTime, events, atClose>>

\* A due reconnect timer runs connect(), whatever isOpen is.
TimerFire ==
    /\ \E r \in Due : timers' = timers (-) SetToBag({r})
    /\ Connect
    /\ ev' = Event("TimerFire", FreeSock, NoMsg)
    /\ pre' = Snapshot
    /\ UNCHANGED <<isOpen, isConnected, logs, activeAgents, processingStartRef,
                   processingTime, events, atClose>>

\* ws.onopen
SocketOpened(s) ==
    /\ sock[s] = "connecting"
    /\ sock' = [sock EXCEPT ![s] = "open"]
    /\ isConnected' = TRUE
    /\ logs' = AddLog(logs, SysConnected)
    /\ events' = events + 1
    /\ ev' = Event("onopen", s, NoMsg)
    /\ pre' = Snapshot
    /\ UNCHANGED <<isOpen, wsRef, timers, activeAgents, processingStartRef,
                   processingTime, atClose>>

\* ws.onclose: the close event of any socket, however the close began
OnClose(s) ==
    /\ sock' = [sock EXCEPT ![s] = "none"]
    /\ isConnected' = FALSE
    /\ logs' = AddLog(logs, SysLost)
    /\ timers' = ScheduleReconnect(timers)
    /\ events' = events + 1
    /\ pre' = Snapshot
    /\ UNCHANGED <<isOpen, wsRef, activeAgents, processingStartRef, processingTime,
                   atClose>>

\* The server's close or the client's own close() completes: close event.
SocketClosed(s) ==
    /\ sock[s] \in {"open", "closing"}
    /\ OnClose(s)
    /\ ev' = Event("onclose", s, NoMsg)

\* The connection fails (refused handshake, network loss): ws.onerror
\* (setIsConnected(false)) and then the close event, in the same task.
SocketFailed(s) ==
    /\ sock[s] \in {"connecting", "open"}
    /\ OnClose(s)
    /\ ev' = Event("onerror", s, NoMsg)

\* ------------------------------------------------------------- messages ----

\* log.message.includes('Starting')
IsStarting(message) == Includes(message, Starting)

\* String.prototype.toLowerCase over the letters the messages use
ToLowerChar(c) ==
    CASE c = "C" -> "c" [] c = "O" -> "o" [] c = "M" -> "m" [] c = "P" -> "p"
      [] c = "L" -> "l" [] c = "E" -> "e" [] c = "T" -> "t" [] c = "D" -> "d"
      [] c = "S" -> "s" [] c = "R" -> "r" [] OTHER -> c
ToLowerCase(s) == [i \in 1..Len(s) |-> ToLowerChar(s[i])]

\* Case-insensitive match: message.toLowerCase().includes('complete')
IsCompleteAnyCase(message) == Includes(ToLowerCase(message), complete)

\* log.message.includes('complete') || log.message.includes('Complete')
IsComplete(message) == Includes(message, complete) \/ Includes(message, Complete)

\* Merge instead of replace: the history is appended to what is there.
HistoryLogsMerged(msg) == logs \o (IF msg.present THEN msg.logs ELSE <<>>)

\* setLogs(data.logs || [])
HistoryLogs(msg) == IF msg.present THEN msg.logs ELSE <<>>

\* Only the lower-case spelling ends an agent's activity.
AgentsAfterLowerOnly(prev, log) ==
    IF Includes(log.message, Starting) THEN prev \cup {log.agent}
    ELSE IF Includes(log.message, complete) THEN prev \ {log.agent}
    ELSE prev

\* The active-agent tracking of a "log" entry: if Starting ... else if complete
AgentsAfter(prev, log) ==
    IF IsStarting(log.message) THEN prev \cup {log.agent}
    ELSE IF IsComplete(log.message) THEN prev \ {log.agent}
    ELSE prev

\* processingStartRef.current after a "log" entry
StartRefAfter(ref, log) ==
    IF IsStarting(log.message) /\ log.agent = "ORCHESTRATOR" THEN "time" ELSE ref

\* processingTime after a "log" entry
ProcessingTimeAfter(time, ref, log) ==
    IF IsStarting(log.message)
    THEN IF log.agent = "ORCHESTRATOR" THEN "null" ELSE time
    ELSE IF IsComplete(log.message) /\ log.agent = "ORCHESTRATOR" /\ ref # "null"
         THEN "time" ELSE time

Receives(s) ==
    /\ sock[s] = "open"
    /\ events' = events + 1
    /\ pre' = Snapshot
    /\ UNCHANGED <<isOpen, sock, wsRef, timers, isConnected, atClose>>

\* A history that also restarts the tracking of active producers.
OnHistoryResets(s, msg) ==
    /\ Receives(s)
    /\ logs' = HistoryLogs(msg)
    /\ activeAgents' = {}
    /\ ev' = Event("history", s, msg)
    /\ UNCHANGED <<processingStartRef, processingTime>>

\* data.type === 'history'
OnHistory(s, msg) ==
    /\ Receives(s)
    /\ logs' = HistoryLogs(msg)
    /\ ev' = Event("history", s, msg)
    /\ UNCHANGED <<activeAgents, processingStartRef, processingTime>>

\* data.type === 'log'.  Without a data field, log is undefined: the buffer
\* update is already queued when log.message throws, and the catch swallows it.
OnLog(s, msg) ==
    /\ Receives(s)
    /\ logs' = AddLog(logs, msg.data)
    /\ IF msg.present
       THEN /\ activeAgents' = AgentsAfter(activeAgents, msg.data)
            /\ processingStartRef' = StartRefAfter(processingStartRef, msg.data)
            /\ processingTime' =
                   ProcessingTimeAfter(processingTime, processingStartRef, msg.data)
       ELSE UNCHANGED <<activeAgents, processingStartRef, processingTime>>
    /\ ev' = Event("log", s, msg)

\* data.type === 'processing_start'
OnProcessingStart(s, filename) ==
    /\ Receives(s)
    /\ logs' = AddLog(logs, SysProcessing(filename))
    /\ processingStartRef' = "time"
    /\ ev' = Event("processing_start", s, PlainMsg("processing_start"))
    /\ UNCHANGED <<activeAgents, processingTime>>

\* data.type === 'processing_complete'
OnProcessingComplete(s) ==
    /\ Receives(s)
    /\ logs' = AddLog(logs, SysProcessingComplete)
    /\ processingTime' = IF processingStartRef # "null" THEN "time" ELSE processingTime
    /\ ev' = Event("processing_complete", s, PlainMsg("processing_complete"))
    /\ UNCHANGED <<activeAgents, processingStartRef>>

\* Any other type falls through every branch; text that is not JSON makes
\* JSON.parse throw into the catch.  Neither touches state.
OnIgnored(s, type) ==
    /\ Receives(s)
    /\ ev' = Event("ignored", s, PlainMsg(type))
    /\ UNCHANGED <<logs, activeAgents, processingStartRef, processingTime>>

\* --------------------------------------------------------------- inputs ----

Agents == {"ORCHESTRATOR", "tax_agent"}
LogMessages ==
    {MsgStarting, MsgTaskComplete, MsgComplete, MsgCOMPLETED, MsgStartingComplete}

\* The entry of the next "log" message: the server stamps it on arrival order.
LogInputs ==
    {LogMsg(TRUE, ServerEntry(1000 + events, a, m)) : a \in Agents, m \in LogMessages}
        \cup {LogMsg(FALSE, Undefined)}

HistorySizes == {0, 1, SliceKeep, LogWindow, LogWindow + 1}
HistoryInputs ==
    {HistoryMsg(TRUE, HistoryOf(n)) : n \in HistorySizes} \cup {HistoryMsg(FALSE, <<>>)}

IgnoredTypes == {"<not json>", "ping"}

\* The entry of a burst's next "log" message.
BurstEntry(k) ==
    ServerEntry(1000 + k, "tax_agent", IF k % 2 = 0 THEN MsgStarting ELSE MsgTaskComplete)

\* ---------------------------------------------------------------- pages ----

Builds == {"development", "production"}

\* main.tsx renders <App /> inside <StrictMode>.  The development bundle
\* then runs every mount effect twice and may call a state updater function
\* a second time; the production bundle does neither.
MountEffectRuns == IF build = "development" THEN 2 ELSE 1
UpdaterRuns == IF build = "development" THEN {1, 2} ELSE {1}

\* A nullable value: the empty set for null, a singleton for a value.
Null == {}
Some(x) == {x}
The(n) == CHOOSE x \in n : TRUE

Step(op, arg) == [op |-> op, arg |-> arg]

\* The input of a step of a load: request r of load l is answered or fails;
\* caught holds the requests of l that failed and were replaced by null.
LoadStep(l, r, caught) == [id |-> l.id, request |-> r, caught |-> caught]

\* A page handler ran: the page has its new state, the history remembers the
\* old one, and the log viewer is not involved.
PageStep(op, arg, new) ==
    /\ page' = new
    /\ step' = Step(op, arg)
    /\ before' = page
    /\ UNCHANGED <<build, termVars, histVars>>

InitAt(p) ==
    /\ TermInit
    /\ build \in Builds
    /\ page = p
    /\ step = Step("init", 0)
    /\ before = p

\* --------------------------------------------- Ops Intelligence page ----

OpsRequests == {"getMonthEndDashboard", "getDailyBriefing", "getUrgentItems"}
LoadFailed == "Failed to load data. Is the backend running?"

\* useState initial values, and what the component has set in motion:
\* loads in flight, requests sent, ids the user has resolved, confetti runs
\* started, pending timers that hide the celebration.  (The briefing is also read aloud one second after
\* a load; speech is not page state and is left out.)
OpsIntelligencePage ==
    [route |-> "/ops", mounted |-> FALSE,
     dashboard |-> Null, briefing |-> Null, urgentItems |-> <<>>,
     loading |-> TRUE, error |-> Null, showCelebration |-> FALSE,
     loads |-> {}, issued |-> 0, requests |-> 0, resolved |-> {},
     confetti |-> 0, hideTimers |-> 0]

Init == InitAt(OpsIntelligencePage)

\* What the backend may answer.
Client(id, phase) == [client_id |-> id, phase |-> phase]
Dashboard(month, clients) == [current_month |-> month, clients_status |-> clients]
March == Dashboard("March", <<Client("c1", "review"), Client("c2", "review")>>)
April == Dashboard("April", <<Client("c1", "complete"), Client("c2", "on_hold")>>)
Briefing(headline) == [headline |-> headline]
UrgentItem(id, title) == [id |-> id, title |-> title]
ItemIds == {"u1", "u2"}

\* The answers of the three requests of one load.
Answers(dashboardData, briefingData, items) ==
    [dashboard |-> dashboardData, briefing |-> briefingData, items |-> items]
OpsAnswers ==
    { Answers(March, Briefing("3 filings due"), <<UrgentItem("u1", "GST mismatch")>>),
      Answers(April, Briefing("All clear"), <<>>),
      Answers(April, Briefing("3 filings due"),
              <<UrgentItem("u1", "GST mismatch"), UrgentItem("u2", "TDS due"),
                UrgentItem("u1", "GST mismatch (2)")>>) }

\* loadData up to its await: the flags are set and the three requests leave.
\* by: what called it, the mount effect, Retry or Refresh.
LoadData(p, by) ==
    [p EXCEPT !.loading = TRUE,
              !.error = Null,
              !.issued = @ + 1,
              !.requests = @ + Cardinality(OpsRequests),
              !.loads = @ \cup {[id |-> p.issued + 1, done |-> {}, by |-> by]}]

\* useEffect(() => { loadData(); }, [])
OpsMount ==
    /\ page.route = "/ops"
    /\ ~page.mounted
    /\ LET m == [page EXCEPT !.mounted = TRUE]
       IN PageStep("mount", MountEffectRuns,
                   IF MountEffectRuns = 2
                   THEN LoadData(LoadData(m, "mount"), "mount")
                   ELSE LoadData(m, "mount"))

\* The page body (cards, Refresh) is rendered only past the two early returns.
OpsShown == page.mounted /\ ~page.loading /\ page.error = Null

\* The Retry button of the error view.
OpsRetry ==
    /\ page.route = "/ops"
    /\ page.mounted /\ ~page.loading /\ page.error # Null
    /\ page.issued < MaxLoads
    /\ PageStep("retry", page.issued + 1, LoadData(page, "retry"))

\* The Refresh button of the page header.
OpsRefresh ==
    /\ page.route = "/ops"
    /\ OpsShown
    /\ page.issued < MaxLoads
    /\ PageStep("refresh", page.issued + 1, LoadData(page, "refresh"))

\* One request of a load is answered while Promise.all still waits for others.
OpsRequestSucceeds(l, r) ==
    /\ page.route = "/ops"
    /\ l \in page.loads
    /\ r \in OpsRequests \ l.done
    /\ l.done \cup {r} # OpsRequests
    /\ PageStep("response", LoadStep(l, r, {}),
                [page EXCEPT !.loads = (@ \ {l}) \cup
                                       {[l EXCEPT !.done = @ \cup {r}]}])

\* The last request of a load is answered: Promise.all resolves and the rest
\* of the try block and the finally block run.
OpsLoadSucceeds(l, r, a) ==
    /\ page.route = "/ops"
    /\ l \in page.loads
    /\ r \in OpsRequests \ l.done
    /\ l.done \cup {r} = OpsRequests
    /\ PageStep("loaded", [answer |-> a, by |-> l.by] @@ LoadStep(l, r, {}),
                [page EXCEPT !.loads = @ \ {l},
                             !.dashboard = Some(a.dashboard),
                             !.briefing = Some(a.briefing),
                             !.urgentItems = a.items,
                             !.loading = FALSE])

\* A request of a load fails: Promise.all rejects at once, the catch block
\* and the finally block run, and what the other requests answer is dropped.
OpsLoadFails(l, r) ==
    /\ page.route = "/ops"
    /\ l \in page.loads
    /\ r \in OpsRequests \ l.done
    /\ PageStep("failed", LoadStep(l, r, {}),
                [page EXCEPT !.loads = @ \ {l},
                             !.error = Some(LoadFailed),
                             !.loading = FALSE])

\* triggerCelebration: the flag, one confetti run, one timer to hide the flag.
TriggerCelebration(p) ==
    [p EXCEPT !.showCelebration = TRUE,
              !.confetti = @ + 1,
              !.hideTimers = @ + 1]

RECURSIVE Times(_, _)
Times(n, p) == IF n = 0 THEN p ELSE Times(n - 1, TriggerCelebration(p))

\* Removes the first item with the id only.
WithoutFirst(prev, id) ==
    LET hits == {i \in DOMAIN prev : prev[i].id = id}
    IN IF hits = {} THEN prev
       ELSE LET k == CHOOSE i \in hits : \A j \in hits : i <= j
            IN SubSeq(prev, 1, k - 1) \o SubSeq(prev, k + 1, Len(prev))

\* prev.filter(item => item.id !== id)
WithoutId(prev, id) ==
    LET Keep(item) == item.id # id IN SelectSeq(prev, Keep)

\* handleResolveItem: the updater passed to setUrgentItems is called `runs`
\* times with the same prev, and calls triggerCelebration itself.
HandleResolveItem(id, runs) ==
    /\ page.route = "/ops"
    /\ OpsShown
    /\ LET prev == page.urgentItems
           newItems == WithoutId(prev, id)
           celebrate == Len(newItems) = 0 /\ Len(prev) > 0
           p == [page EXCEPT !.urgentItems = newItems, !.resolved = @ \cup {id}]
       IN PageStep("handleResolveItem", id,
                   IF celebrate THEN Times(runs, p) ELSE p)

\* setTimeout(() => setShowCelebration(false), 5000) comes due.
OpsCelebrationEnds ==
    /\ page.route = "/ops"
    /\ page.hideTimers > 0
    /\ PageStep("hideCelebration", 0,
                [page EXCEPT !.showCelebration = FALSE, !.hideTimers = @ - 1])

\* The Kanban board: one column per entry of phases.
phases == <<"not_started", "data_collection", "reconciliation", "review",
            "filing_ready", "complete">>
PhaseSet == {phases[i] : i \in DOMAIN phases}
GroupedClients(dashboard) ==
    [phase \in PhaseSet |->
        IF dashboard = Null THEN <<>>
        ELSE LET InPhase(c) == c.phase = phase
             IN SelectSeq(The(dashboard).clients_status, InPhase)]

NextOps ==
    \/ OpsMount
    \/ OpsRetry
    \/ OpsRefresh
    \/ \E l \in page.loads, r \in OpsRequests : OpsRequestSucceeds(l, r)
    \/ \E l \in page.loads, r \in OpsRequests, a \in OpsAnswers :
          OpsLoadSucceeds(l, r, a)
    \/ \E l \in page.loads, r \in OpsRequests : OpsLoadFails(l, r)
    \/ \E id \in ItemIds, runs \in UpdaterRuns : HandleResolveItem(id, runs)
    \/ OpsCelebrationEnds

\* A visit of the Ops Intelligence page.
SpecOps == Init /\ [][NextOps]_vars

\* ----------------------------------------------------------- Audit page ----

\* What an <input type="date"> can hold: nothing or a date.
DateInputs == {"", "2024-01-01"}

\* The query parameters both audit requests build from the two date fields.
AllParams(startDate, endDate) ==
    [k \in {"start_date", "end_date"} |->
        IF k = "start_date" THEN startDate ELSE endDate]

\* A request that always carries both parameters, empty or not.
ParamsBoth(startDate, endDate) == AllParams(startDate, endDate)

\* const params = {}; if (startDate) params.start_date = startDate;
\* if (endDate) params.end_date = endDate;
Params(startDate, endDate) ==
    [k \in {n \in {"start_date", "end_date"} :
                AllParams(startDate, endDate)[n] # ""} |->
        AllParams(startDate, endDate)[k]]

\* useState initial values, the requests in flight, and how many report
\* responses have arrived; `shown` is the request whose report is on screen
\* and lastAnswer the data of the response that arrived last.
AuditPage ==
    [route |-> "/audit", mounted |-> FALSE,
     report |-> Null, loading |-> TRUE, downloading |-> FALSE,
     startDate |-> "", endDate |-> "",
     loads |-> {}, issued |-> 0, arrived |-> 0, shown |-> 0,
     lastAnswer |-> Null, download |-> Null]

\* The backend's report for a request: its period echoes the parameters and
\* report_generated is the moment it answered.
AuditReport(params, generated) ==
    [period |-> params, report_generated |-> generated]

\* fetchReport up to its await.
FetchReport(p) ==
    [p EXCEPT !.loading = TRUE,
              !.issued = @ + 1,
              !.loads = @ \cup {[id |-> p.issued + 1,
                                 params |-> Params(p.startDate, p.endDate)]}]

\* useEffect(() => { fetchReport(); }, [])
AuditMount ==
    /\ page.route = "/audit"
    /\ ~page.mounted
    /\ LET m == [page EXCEPT !.mounted = TRUE]
       IN PageStep("mount", MountEffectRuns,
                   IF MountEffectRuns = 2 THEN FetchReport(FetchReport(m))
                                          ELSE FetchReport(m))

SetStartDate(v) ==
    /\ page.route = "/audit"
    /\ page.mounted
    /\ v # page.startDate
    /\ PageStep("setStartDate", v, [page EXCEPT !.startDate = v])

SetEndDate(v) ==
    /\ page.route = "/audit"
    /\ page.mounted
    /\ v # page.endDate
    /\ PageStep("setEndDate", v, [page EXCEPT !.endDate = v])

\* The Update Report button; it is never disabled.
UpdateReport ==
    /\ page.route = "/audit"
    /\ page.mounted
    /\ page.issued < MaxLoads
    /\ PageStep("fetchReport", Params(page.startDate, page.endDate),
                FetchReport(page))

\* A staleness guard: only the request issued last may set the view.
AppliesIfLatest(p, l) == l.id = p.issued

\* Whether the response to request l is applied: fetchReport and
\* fetchInvoices call their setter right after the await, whatever else has
\* been issued or has arrived meanwhile.
ResponseApplies(p, l) == TRUE

\* fetchReport after its await: setReport(res.data), finally.
ReportArrives(l) ==
    /\ page.route = "/audit"
    /\ l \in page.loads
    /\ LET data == AuditReport(l.params, page.arrived + 1)
           p == [page EXCEPT !.loads = @ \ {l},
                             !.arrived = @ + 1,
                             !.lastAnswer = Some(data),
                             !.loading = FALSE]
       IN PageStep("reportArrived", [id |-> l.id, data |-> data],
                   IF ResponseApplies(page, l)
                   THEN [p EXCEPT !.report = Some(data), !.shown = l.id]
                   ELSE p)

\* fetchReport's catch and finally.
ReportFails(l) ==
    /\ page.route = "/audit"
    /\ l \in page.loads
    /\ PageStep("reportFailed", [id |-> l.id, data |-> AuditReport(l.params, 0)],
                [page EXCEPT !.loads = @ \ {l}, !.loading = FALSE])

\* downloadAuditPack up to its await; the button is disabled while downloading.
DownloadAuditPack ==
    /\ page.route = "/audit"
    /\ page.mounted
    /\ ~page.downloading
    /\ PageStep("downloadAuditPack", Params(page.startDate, page.endDate),
                [page EXCEPT !.downloading = TRUE,
                             !.download = Some(Params(page.startDate, page.endDate))])

\* downloadAuditPack after its await: the file is saved, or the failure is
\* logged; finally setDownloading(false).
DownloadSettles(ok) ==
    /\ page.route = "/audit"
    /\ page.download # Null
    /\ PageStep(IF ok THEN "saved" ELSE "downloadFailed", The(page.download),
                [page EXCEPT !.downloading = FALSE, !.download = Null])

NextAudit ==
    \/ AuditMount
    \/ \E v \in DateInputs : SetStartDate(v)
    \/ \E v \in DateInputs : SetEndDate(v)
    \/ UpdateReport
    \/ \E l \in page.loads : ReportArrives(l)
    \/ \E l \in page.loads : ReportFails(l)
    \/ DownloadAuditPack
    \/ \E ok \in BOOLEAN : DownloadSettles(ok)

\* A visit of the Audit page.
SpecAudit == InitAt(AuditPage) /\ [][NextAudit]_vars

\* --------------------------------- Vendors, Invoices and Emails pages ----

\* useState initial values of the three pages that have a copy button, with
\* what each has in flight: loads, and the timers that clear `copied`.
\* lastCopy is the time since the last copy action, Null before the first.
VendorsPage ==
    [route |-> "/vendors", mounted |-> FALSE,
     analysis |-> Null, opportunities |-> <<>>, loading |-> TRUE,
     selectedVendor |-> Null, negotiationScript |-> Null, copied |-> FALSE,
     loads |-> {}, issued |-> 0, scriptLoads |-> {}, scriptIssued |-> 0,
     copyTimers |-> EmptyBag, lastCopy |-> Null, clipboard |-> Null]

InvoicesPage ==
    [route |-> "/invoices", mounted |-> FALSE,
     invoices |-> <<>>, loading |-> TRUE, search |-> <<>>, statusFilter |-> "all",
     selectedInvoice |-> Null, invoiceEmail |-> Null, copied |-> FALSE,
     loads |-> {}, issued |-> 0, arrived |-> 0, shown |-> 0,
     lastAnswer |-> Null, emailLoads |-> {}, emailIssued |-> 0,
     copyTimers |-> EmptyBag, lastCopy |-> Null, clipboard |-> Null]

EmailsPage ==
    [route |-> "/emails", mounted |-> FALSE,
     emails |-> <<>>, loading |-> TRUE, selectedEmail |-> Null, copied |-> FALSE,
     loads |-> {}, issued |-> 0,
     copyTimers |-> EmptyBag, lastCopy |-> Null, clipboard |-> Null]

\* --------------------------------------------- Invoices page: fetchInvoices ----

\* An invoice as GET /invoices delivers it.  number and vendor are nullable
\* texts: the page reads both with ?. and renders a fallback for a missing
\* one (199-203).  errors_json and items_json hold JSON text, here "[]".
Invoice(id, number, vendor, status) ==
    [id |-> id, invoice_number |-> number, vendor_name |-> vendor, status |-> status,
     errors_json |-> <<"[", "]">>, items_json |-> <<"[", "]">>]

\* Invoice numbers and vendor names, as sequences of characters.
NumberSO1 == <<"S","O","-","1">>
NumberPO2 == <<"P","O","-","2">>
Metro == <<"M","e","t","r","o">>
Scope == <<"S","c","o","p","e">>

\* What GET /invoices may answer.
InvoiceLists ==
    { <<Invoice(1, Some(NumberSO1), Some(Metro), "processed")>>,
      <<Invoice(1, Some(NumberSO1), Some(Metro), "processed"),
        Invoice(2, Some(NumberPO2), Some(Scope), "needs_review")>> }

\* fetchInvoices up to its await.
FetchInvoices(p) ==
    [p EXCEPT !.loading = TRUE,
              !.issued = @ + 1,
              !.loads = @ \cup {[id |-> p.issued + 1]}]

\* useEffect(() => { fetchInvoices(); }, [])
InvoicesMount ==
    /\ page.route = "/invoices"
    /\ ~page.mounted
    /\ LET m == [page EXCEPT !.mounted = TRUE]
       IN PageStep("mount", MountEffectRuns,
                   IF MountEffectRuns = 2 THEN FetchInvoices(FetchInvoices(m))
                                          ELSE FetchInvoices(m))

\* The Refresh button; it is never disabled.
InvoicesRefresh ==
    /\ page.route = "/invoices"
    /\ page.mounted
    /\ page.issued < MaxLoads
    /\ PageStep("fetchInvoices", page.issued + 1, FetchInvoices(page))

\* fetchInvoices after its await: setInvoices(result.invoices), finally.
InvoicesArrive(l, data) ==
    /\ page.route = "/invoices"
    /\ l \in page.loads
    /\ LET p == [page EXCEPT !.loads = @ \ {l},
                             !.arrived = @ + 1,
                             !.lastAnswer = Some(data),
                             !.loading = FALSE]
       IN PageStep("invoicesArrived", [id |-> l.id, data |-> data],
                   IF ResponseApplies(page, l)
                   THEN [p EXCEPT !.invoices = data, !.shown = l.id]
                   ELSE p)

\* fetchInvoices' catch and finally.
InvoicesFail(l) ==
    /\ page.route = "/invoices"
    /\ l \in page.loads
    /\ PageStep("invoicesFailed", [id |-> l.id, data |-> <<>>],
                [page EXCEPT !.loads = @ \ {l}, !.loading = FALSE])

NextInvoices ==
    \/ InvoicesMount
    \/ InvoicesRefresh
    \/ \E l \in page.loads, data \in InvoiceLists : InvoicesArrive(l, data)
    \/ \E l \in page.loads : InvoicesFail(l)

\* ------------------------------------- Invoices page: errors_json, items_json ----

\* A JSON text is the sequence of its tokens; the empty sequence is the
\* empty string.
JsonTokens == {"[", "]", ",", "1", "{", "}"}
JsonInputs == UNION {[1..n -> JsonTokens] : n \in 0..MaxJsonLen}

\* JavaScript values: a number, an (empty) object, an array of values.
JsNumber == [kind |-> "number", items |-> <<>>]
JsObject == [kind |-> "object", items |-> <<>>]
JsArray(items) == [kind |-> "array", items |-> items]
JsUndefined == [kind |-> "undefined", items |-> <<>>]

Parsed(value, rest) == [ok |-> TRUE, value |-> value, rest |-> rest]
NotParsed == [ok |-> FALSE, value |-> JsUndefined, rest |-> <<>>]

\* JSON.parse, by recursive descent: a value at the head of the tokens t, and
\* the elements of an array whose first elements are acc.
RECURSIVE ParseValue(_), ParseElements(_, _)
ParseValue(t) ==
    IF t = <<>> THEN NotParsed
    ELSE IF Head(t) = "1" THEN Parsed(JsNumber, Tail(t))
    ELSE IF Head(t) = "{"
         THEN IF Len(t) >= 2 /\ t[2] = "}"
              THEN Parsed(JsObject, SubSeq(t, 3, Len(t)))
              ELSE NotParsed
    ELSE IF Head(t) = "["
         THEN IF Len(t) >= 2 /\ t[2] = "]"
              THEN Parsed(JsArray(<<>>), SubSeq(t, 3, Len(t)))
              ELSE ParseElements(Tail(t), <<>>)
    ELSE NotParsed
ParseElements(t, acc) ==
    LET v == ParseValue(t)
    IN IF ~v.ok \/ v.rest = <<>> THEN NotParsed
       ELSE IF Head(v.rest) = "]"
            THEN Parsed(JsArray(Append(acc, v.value)), Tail(v.rest))
       ELSE IF Head(v.rest) = ","
            THEN ParseElements(Tail(v.rest), Append(acc, v.value))
       ELSE NotParsed

\* What a call comes to: it returns a value or it throws.
Returns(value) == [throws |-> FALSE, value |-> value]
Throws == [throws |-> TRUE, value |-> JsUndefined]

\* JSON.parse(text): throws a SyntaxError unless the whole text is one value.
JsonParse(text) ==
    LET r == ParseValue(text)
    IN IF r.ok /\ r.rest = <<>> THEN Returns(r.value) ELSE Throws

\* Decoding without the try block and the Array.isArray test.
ParseUnchecked(json) == JsonParse(json)

\* parseErrors: try { const parsed = JSON.parse(errorsJson);
\* return Array.isArray(parsed) ? parsed : []; } catch { return []; }
ParseErrors(errorsJson) ==
    LET parsed == JsonParse(errorsJson)
    IN IF parsed.throws THEN Returns(JsArray(<<>>))
       ELSE IF parsed.value.kind = "array" THEN Returns(parsed.value)
       ELSE Returns(JsArray(<<>>))

\* parseItems: the same body, for items_json.
ParseItems(itemsJson) ==
    LET parsed == JsonParse(itemsJson)
    IN IF parsed.throws THEN Returns(JsArray(<<>>))
       ELSE IF parsed.value.kind = "array" THEN Returns(parsed.value)
       ELSE Returns(JsArray(<<>>))

\* The detail panel of the selected invoice decodes both fields when it
\* renders (a field that is the empty string is skipped and shows nothing).
RenderInvoiceDetail ==
    /\ page.route = "/invoices"
    /\ page.selectedInvoice # Null
    /\ LET inv == The(page.selectedInvoice)
       IN PageStep("render",
                   [errors_json |-> inv.errors_json,
                    items_json |-> inv.items_json,
                    items |-> IF inv.items_json = <<>> THEN Returns(JsArray(<<>>))
                              ELSE ParseItems(inv.items_json),
                    errors |-> IF inv.errors_json = <<>> THEN Returns(JsArray(<<>>))
                               ELSE ParseErrors(inv.errors_json)],
                   page)

\* An invoice is selected whose errors_json or items_json is any text.
InitDecode ==
    \E json \in JsonInputs, field \in {"errors_json", "items_json"} :
        LET inv == [Invoice(2, Some(NumberPO2), Some(Scope), "needs_review")
                        EXCEPT ![field] = json]
        IN InitAt([InvoicesPage EXCEPT !.mounted = TRUE,
                                       !.loading = FALSE,
                                       !.invoices = <<inv>>,
                                       !.selectedInvoice = Some(inv)])

NextDecode == RenderInvoiceDetail

\* The detail panel of an invoice with arbitrary errors_json / items_json.
SpecDecode == InitDecode /\ [][NextDecode]_vars

\* ------------------------------------------- loads of a single request ----

InitRefetch == \E p \in {AuditPage, InvoicesPage} : InitAt(p)

NextRefetch == NextAudit \/ NextInvoices

\* A visit of a page whose load can be started again while one is in flight.
SpecRefetch == InitRefetch /\ [][NextRefetch]_vars

\* ------------------------------------------------ Vendors page: fetchData ----

VendorsRequests == {"/vendors/analysis", "/vendors/negotiations"}

VendorsAnswers ==
    { [analysis |-> [total_vendors |-> 2], opportunities |-> <<"Acme">>],
      [analysis |-> [total_vendors |-> 3], opportunities |-> <<>>] }

\* fetchData up to its await.
FetchVendorData(p) ==
    [p EXCEPT !.loading = TRUE,
              !.issued = @ + 1,
              !.loads = @ \cup {[id |-> p.issued + 1, done |-> {}]}]

\* useEffect(() => { fetchData(); }, []); nothing else calls fetchData.
VendorsMount ==
    /\ page.route = "/vendors"
    /\ ~page.mounted
    /\ LET m == [page EXCEPT !.mounted = TRUE]
       IN PageStep("mount", MountEffectRuns,
                   IF MountEffectRuns = 2 THEN FetchVendorData(FetchVendorData(m))
                                          ELSE FetchVendorData(m))

VendorsRequestSucceeds(l, r) ==
    /\ page.route = "/vendors"
    /\ l \in page.loads
    /\ r \in VendorsRequests \ l.done
    /\ l.done \cup {r} # VendorsRequests
    /\ PageStep("response", LoadStep(l, r, {}),
                [page EXCEPT !.loads = (@ \ {l}) \cup
                                       {[l EXCEPT !.done = @ \cup {r}]}])

\* Promise.all resolves: setAnalysis, setOpportunities, finally.
VendorsLoadSucceeds(l, r, a) ==
    /\ page.route = "/vendors"
    /\ l \in page.loads
    /\ r \in VendorsRequests \ l.done
    /\ l.done \cup {r} = VendorsRequests
    /\ PageStep("loaded", LoadStep(l, r, {}),
                [page EXCEPT !.loads = @ \ {l},
                             !.analysis = Some(a.analysis),
                             !.opportunities = a.opportunities,
                             !.loading = FALSE])

\* Promise.all rejects: the catch block only logs; finally.
VendorsLoadFails(l, r) ==
    /\ page.route = "/vendors"
    /\ l \in page.loads
    /\ r \in VendorsRequests \ l.done
    /\ PageStep("failed", LoadStep(l, r, {}),
                [page EXCEPT !.loads = @ \ {l}, !.loading = FALSE])

NextVendors ==
    \/ VendorsMount
    \/ \E l \in page.loads, r \in VendorsRequests : VendorsRequestSucceeds(l, r)
    \/ \E l \in page.loads, r \in VendorsRequests, a \in VendorsAnswers :
          VendorsLoadSucceeds(l, r, a)
    \/ \E l \in page.loads, r \in VendorsRequests : VendorsLoadFails(l, r)

\* ------------------------------------------------------- Dashboard page ----

DashboardRequests == {"getDashboard", "/cashflow/summary"}

\* The requests whose failure fetchData replaces by an answer of null:
\* api.get('/cashflow/summary').then((r) => r.data).catch(() => null)
CaughtRequests == {"/cashflow/summary"}

DashboardPage ==
    [route |-> "/dashboard", mounted |-> FALSE,
     data |-> Null, cashForecast |-> Null, loading |-> TRUE,
     runningDemo |-> FALSE, selectedCategory |-> Null,
     loads |-> {}, issued |-> 0, demo |-> FALSE]

DashboardAnswers ==
    { [dashboard |-> [total_invoices |-> 4], forecast |-> [trend |-> "up"]],
      [dashboard |-> [total_invoices |-> 5], forecast |-> [trend |-> "down"]] }

\* fetchData up to its await; byDemo: runDemoInvoice awaits this call.
FetchDashboardData(p, byDemo) ==
    [p EXCEPT !.loading = TRUE,
              !.issued = @ + 1,
              !.loads = @ \cup {[id |-> p.issued + 1, done |-> {},
                                 caught |-> {}, byDemo |-> byDemo]}]

\* useEffect(() => { fetchData(); }, [])
DashboardMount ==
    /\ page.route = "/dashboard"
    /\ ~page.mounted
    /\ LET m == [page EXCEPT !.mounted = TRUE]
       IN PageStep("mount", MountEffectRuns,
                   IF MountEffectRuns = 2
                   THEN FetchDashboardData(FetchDashboardData(m, FALSE), FALSE)
                   ELSE FetchDashboardData(m, FALSE))

\* runDemoInvoice up to await getDemo(); the button is disabled meanwhile.
RunDemoInvoice ==
    /\ page.route = "/dashboard"
    /\ page.mounted
    /\ ~page.runningDemo
    /\ page.issued < MaxLoads
    /\ PageStep("runDemoInvoice", 0,
                [page EXCEPT !.runningDemo = TRUE, !.demo = TRUE])

\* getDemo() resolves: runDemoInvoice goes on to await fetchData().
DemoSucceeds ==
    /\ page.route = "/dashboard"
    /\ page.demo
    /\ PageStep("demoDone", 0,
                FetchDashboardData([page EXCEPT !.demo = FALSE], TRUE))

\* getDemo() rejects: catch, finally setRunningDemo(false).
DemoFails ==
    /\ page.route = "/dashboard"
    /\ page.demo
    /\ PageStep("demoFailed", 0,
                [page EXCEPT !.demo = FALSE, !.runningDemo = FALSE])

\* A failed load that also clears what is on screen.
DashboardDoneClears(p, l) ==
    [p EXCEPT !.loads = @ \ {l},
              !.loading = FALSE,
              !.runningDemo = IF l.byDemo THEN FALSE ELSE @,
              !.data = Null,
              !.cashForecast = Null]

\* fetchData has returned: its finally block, then that of a runDemoInvoice
\* that awaited it.
DashboardDone(p, l) ==
    [p EXCEPT !.loads = @ \ {l},
              !.loading = FALSE,
              !.runningDemo = IF l.byDemo THEN FALSE ELSE @]

\* Promise.all resolves: setData(dashboard); setCashForecast(forecast), where
\* forecast is null if the cash-flow request failed.
DashboardApply(p, l, a) ==
    [DashboardDone(p, l) EXCEPT
        !.data = Some(a.dashboard),
        !.cashForecast = IF l.caught = {} THEN Some(a.forecast) ELSE Null]

DashboardRequestSucceeds(l, r) ==
    /\ page.route = "/dashboard"
    /\ l \in page.loads
    /\ r \in DashboardRequests \ l.done
    /\ l.done \cup {r} # DashboardRequests
    /\ PageStep("response", LoadStep(l, r, l.caught),
                [page EXCEPT !.loads = (@ \ {l}) \cup
                                       {[l EXCEPT !.done = @ \cup {r}]}])

DashboardLoadSucceeds(l, r, a) ==
    /\ page.route = "/dashboard"
    /\ l \in page.loads
    /\ r \in DashboardRequests \ l.done
    /\ l.done \cup {r} = DashboardRequests
    /\ PageStep("loaded", LoadStep(l, r, l.caught), DashboardApply(page, l, a))

\* The cash-flow request fails: its own catch makes it an answer of null,
\* which may be the last answer Promise.all waits for.
CashflowFails(l, r, a) ==
    /\ page.route = "/dashboard"
    /\ l \in page.loads
    /\ r \in CaughtRequests \ l.done
    /\ LET m == [l EXCEPT !.done = @ \cup {r}, !.caught = @ \cup {r}]
       IN IF m.done = DashboardRequests
          THEN PageStep("loaded", LoadStep(l, r, m.caught), DashboardApply(page, m, a))
          ELSE PageStep("response", LoadStep(l, r, m.caught),
                        [page EXCEPT !.loads = (@ \ {l}) \cup {m}])

\* The dashboard request fails: Promise.all rejects, catch, finally.
DashboardLoadFails(l, r) ==
    /\ page.route = "/dashboard"
    /\ l \in page.loads
    /\ r \in (DashboardRequests \ CaughtRequests) \ l.done
    /\ PageStep("failed", LoadStep(l, r, l.caught), DashboardDone(page, l))

NextDashboard ==
    \/ DashboardMount
    \/ RunDemoInvoice
    \/ DemoSucceeds
    \/ DemoFails
    \/ \E l \in page.loads, r \in DashboardRequests : DashboardRequestSucceeds(l, r)
    \/ \E l \in page.loads, r \in DashboardRequests, a \in DashboardAnswers :
          DashboardLoadSucceeds(l, r, a)
    \/ \E l \in page.loads, r \in DashboardRequests, a \in DashboardAnswers :
          CashflowFails(l, r, a)
    \/ \E l \in page.loads, r \in DashboardRequests : DashboardLoadFails(l, r)

\* ------------------------------------------- loads of several requests ----

\* What a load sets when it succeeds.
LoadedState(p) ==
    IF p.route = "/ops" THEN <<p.dashboard, p.briefing, p.urgentItems>>
    ELSE IF p.route = "/vendors" THEN <<p.analysis, p.opportunities>>
    ELSE <<p.data, p.cashForecast>>

InitLoads == \E p \in {OpsIntelligencePage, VendorsPage, DashboardPage} : InitAt(p)

NextLoads == NextOps \/ NextVendors \/ NextDashboard

\* A visit of a page whose load waits for several requests at once.
SpecLoads == InitLoads /\ [][NextLoads]_vars

\* ------------------------------------------------------ copy to clipboard ----

CopyRoutes == {"/vendors", "/invoices", "/emails"}
CopyTexts == {"Subject: Payment reminder", "29ABCDE1234F1Z5"}

\* Page time is counted in units of 1/TicksPerDelay ms, so that a tick of
\* CopiedDelay / TicksPerDelay ms is a whole number of units.
Units(ms) == ms * TicksPerDelay
CopyTickLen == CopiedDelay

DueCopyTimers == {r \in BagToSet(page.copyTimers) : r <= 0}

\* copyToClipboard: writeText(text); setCopied(true);
\* setTimeout(() => setCopied(false), 2000).  The button stays enabled while
\* the indicator shows.
CopyToClipboard(text) ==
    /\ page.route \in CopyRoutes
    /\ BagCardinality(page.copyTimers) < MaxCopies
    /\ PageStep("copyToClipboard", text,
                [page EXCEPT !.clipboard = Some(text),
                             !.copied = TRUE,
                             !.copyTimers = @ (+) SetToBag({Units(CopiedDelay)}),
                             !.lastCopy = Some(0)])

\* Time passes while no timer is due.
CopyTick ==
    /\ page.route \in CopyRoutes
    /\ page.copyTimers # EmptyBag
    /\ DueCopyTimers = {}
    /\ PageStep("tick", CopyTickLen,
                [page EXCEPT
                   !.copyTimers = [r \in {x - CopyTickLen : x \in BagToSet(@)} |->
                                      @[r + CopyTickLen]],
                   !.lastCopy = {IF e + CopyTickLen > Units(CopiedDelay)
                                 THEN Units(CopiedDelay) ELSE e + CopyTickLen : e \in @}])

\* A due timer's callback: setCopied(false).
CopiedTimeout ==
    /\ page.route \in CopyRoutes
    /\ \E r \in DueCopyTimers :
          PageStep("copiedTimeout", r,
                   [page EXCEPT !.copied = FALSE,
                                !.copyTimers = @ (-) SetToBag({r})])

NextCopy ==
    \/ \E text \in CopyTexts : CopyToClipboard(text)
    \/ CopyTick
    \/ CopiedTimeout

InitCopy == \E p \in {VendorsPage, InvoicesPage, EmailsPage} : InitAt(p)

\* The copy button of the Vendors, Invoices or Emails page.
SpecCopy == InitCopy /\ [][NextCopy]_vars

\* ---------------------------------------------------------- Upload page ----

File(name, type) == [name |-> name, type |-> type]
Files == {File("invoice.pdf", "application/pdf"), File("scan.png", "image/png")}

\* file.type.startsWith('image/')
IsImage(file) == file.type = "image/png"

\* What POST /upload may answer; the page never looks at success.
ProcessingResponses ==
    { [success |-> TRUE, invoice_number |-> "INV-001", errors_count |-> 0],
      [success |-> FALSE, invoice_number |-> "", errors_count |-> 1] }

\* useState initial values of UploadPage (processedCount) and of its
\* UploadZone, with what is in flight: upload requests, FileReader reads;
\* started and completed count the uploads begun and the uploads that resolved.
UploadPage ==
    [route |-> "/upload",
     processedCount |-> 0,
     uploading |-> FALSE, result |-> Null, error |-> Null,
     selectedFile |-> Null, preview |-> Null,
     uploads |-> {}, reading |-> {}, started |-> 0, completed |-> 0]

\* The dropzone, with the Remove and Process Invoice buttons, is rendered
\* while there is neither a result nor an error.
DropzoneShown == page.result = Null /\ page.error = Null

\* onDrop with one accepted file; useDropzone is disabled while uploading.
OnDrop(file) ==
    /\ page.route = "/upload"
    /\ DropzoneShown
    /\ ~page.uploading
    /\ PageStep("onDrop", file,
                [page EXCEPT !.selectedFile = Some(file),
                             !.error = Null,
                             !.result = Null,
                             !.preview = IF IsImage(file) THEN @ ELSE Null,
                             !.reading = IF IsImage(file) THEN @ \cup {file} ELSE @])

\* reader.onloadend: setPreview(reader.result)
PreviewLoaded(file) ==
    /\ page.route = "/upload"
    /\ file \in page.reading
    /\ PageStep("onloadend", file,
                [page EXCEPT !.preview = Some(file.name),
                             !.reading = @ \ {file}])

\* An updater that adds one for every time it is called.
CountEveryCall(c, runs) == c + runs

\* setProcessedCount((c) => c + 1): however often the updater is called, it
\* is called with the same c and the state becomes its result.
HandleUploadComplete(c, runs) == c + 1

\* The Process Invoice button without its disabled attribute.
AlwaysEnabled(p) == TRUE

\* The Process Invoice button: disabled={uploading}
UploadEnabled(p) == ~p.uploading

\* handleUpload up to its await, from the Process Invoice button, which is
\* rendered inside the dropzone while a file is selected.
HandleUpload ==
    /\ page.route = "/upload"
    /\ DropzoneShown
    /\ page.selectedFile # Null
    /\ UploadEnabled(page)
    /\ page.started < MaxUploads
    /\ PageStep("handleUpload", The(page.selectedFile),
                [page EXCEPT !.uploading = TRUE,
                             !.error = Null,
                             !.uploads = @ \cup {[id |-> page.started + 1,
                                                  file |-> The(page.selectedFile)]},
                             !.started = @ + 1])

\* uploadInvoice resolves: setResult(response); onUploadComplete(response);
\* finally setUploading(false).
UploadSucceeds(u, response, runs) ==
    /\ page.route = "/upload"
    /\ u \in page.uploads
    /\ PageStep("uploaded", response,
                [page EXCEPT !.result = Some(response),
                             !.processedCount = HandleUploadComplete(@, runs),
                             !.uploading = FALSE,
                             !.uploads = @ \ {u},
                             !.completed = @ + 1])

\* uploadInvoice rejects: setError(...); finally setUploading(false).
UploadFails(u) ==
    /\ page.route = "/upload"
    /\ u \in page.uploads
    /\ PageStep("uploadFailed", u.file,
                [page EXCEPT !.error = Some("Upload failed"),
                             !.uploading = FALSE,
                             !.uploads = @ \ {u}])

\* clearAll, from the Remove button of a selected file (which is not disabled
\* while uploading) or the close button of the result or error panel.
ClearAll ==
    /\ page.route = "/upload"
    /\ page.selectedFile # Null \/ page.result # Null \/ page.error # Null
    /\ PageStep("clearAll", 0,
                [page EXCEPT !.result = Null,
                             !.error = Null,
                             !.selectedFile = Null,
                             !.preview = Null])

NextUpload ==
    \/ \E file \in Files : OnDrop(file)
    \/ \E file \in Files : PreviewLoaded(file)
    \/ HandleUpload
    \/ \E u \in page.uploads, response \in ProcessingResponses, runs \in UpdaterRuns :
          UploadSucceeds(u, response, runs)
    \/ \E u \in page.uploads : UploadFails(u)
    \/ ClearAll

\* A visit of the Upload page.
SpecUpload == InitAt(UploadPage) /\ [][NextUpload]_vars

\* ------------------------------------ Invoices page: filteredInvoices ----

\* field?.toLowerCase().includes(search.toLowerCase()): undefined, which
\* counts as false, when the field is null.
IncludesAnyCase(field, search) ==
    /\ field # Null
    /\ Includes(ToLowerCase(The(field)), ToLowerCase(search))

MatchesSearch(inv, search) ==
    \/ IncludesAnyCase(inv.invoice_number, search)
    \/ IncludesAnyCase(inv.vendor_name, search)

MatchesStatus(inv, statusFilter) ==
    statusFilter = "all" \/ inv.status = statusFilter

\* invoices.filter((inv) => matchesSearch && matchesStatus)
FilteredInvoices(invoices, search, statusFilter) ==
    SelectSeq(invoices, LAMBDA inv : MatchesSearch(inv, search) /\ MatchesStatus(inv, statusFilter))

\* The options of the status select and texts typed into the search box.
StatusOptions == {"all", "processed", "needs_review", "pending", "error"}
SearchTexts == {<<>>, <<"m","e","t">>, <<"S","O">>, <<"o">>, <<"x">>}

\* Answers of GET /invoices in which an invoice number or a vendor name is
\* missing.
FilterLists ==
    { <<Invoice(1, Some(NumberSO1), Some(Metro), "processed"),
        Invoice(2, Some(NumberPO2), Some(Scope), "needs_review")>>,
      <<Invoice(1, Some(NumberSO1), Null, "processed"),
        Invoice(2, Null, Some(Scope), "needs_review"),
        Invoice(3, Some(NumberPO2), Some(Metro), "pending")>>,
      <<Invoice(1, Some(NumberSO1), Some(Metro), "processed"),
        Invoice(2, Null, Null, "needs_review")>> }

\* onChange of the search box: setSearch(e.target.value)
SetSearch(text) ==
    /\ page.route = "/invoices"
    /\ PageStep("setSearch", text, [page EXCEPT !.search = text])

\* onChange of the status select: setStatusFilter(e.target.value)
SetStatusFilter(option) ==
    /\ page.route = "/invoices"
    /\ PageStep("setStatusFilter", option, [page EXCEPT !.statusFilter = option])

NextFilter ==
    \/ InvoicesMount
    \/ \E l \in page.loads, data \in FilterLists : InvoicesArrive(l, data)
    \/ \E text \in SearchTexts : SetSearch(text)
    \/ \E option \in StatusOptions : SetStatusFilter(option)

\* The search box and the status select of a visit of the Invoices page.
SpecFilter == InitAt(InvoicesPage) /\ [][NextFilter]_vars

\* ------------------------------- Invoices page: the generated email ----

\* getEmails(invoiceId): params is { invoice_id } unless invoiceId is falsy.
EmailsParams(invoiceId) == IF invoiceId # 0 THEN Some(invoiceId) ELSE Null

\* An email the backend generated for an invoice.
GeneratedEmail(invoiceId) ==
    [id |-> invoiceId, invoice_id |-> invoiceId, subject |-> "Clarification needed"]

\* What GET /emails may answer to a request for one invoice's emails: none,
\* or the email of that invoice.
EmailAnswers(params) ==
    IF params = Null THEN {<<>>} ELSE {<<>>, <<GeneratedEmail(The(params))>>}

\* The list a visit of the page loads: one processed invoice and two that
\* need a review.
ReviewList ==
    <<Invoice(1, Some(NumberSO1), Some(Metro), "processed"),
      Invoice(2, Some(NumberPO2), Some(Scope), "needs_review"),
      Invoice(3, Some(NumberPO2), Some(Metro), "needs_review")>>

\* fetchInvoiceEmail up to its await.
FetchInvoiceEmail(p, invoiceId) ==
    [p EXCEPT !.emailIssued = @ + 1,
              !.emailLoads = @ \cup {[id |-> p.emailIssued + 1,
                                       params |-> EmailsParams(invoiceId)]}]

\* The rows of the table: shown when not loading, and covered by the
\* modal's overlay while an invoice is selected.
InvoiceRows ==
    IF page.loading \/ page.selectedInvoice # Null THEN {}
    ELSE LET rows == FilteredInvoices(page.invoices, page.search, page.statusFilter)
         IN {rows[i] : i \in 1..Len(rows)}

\* handleSelectInvoice, from a row's View Details or View Email button.
HandleSelectInvoice(inv) ==
    /\ page.route = "/invoices"
    /\ inv \in InvoiceRows
    /\ inv.status = "needs_review" => page.emailIssued < MaxLoads
    /\ LET s == [page EXCEPT !.selectedInvoice = Some(inv), !.invoiceEmail = Null]
       IN PageStep("handleSelectInvoice", inv.id,
                   IF inv.status = "needs_review" THEN FetchInvoiceEmail(s, inv.id)
                                                  ELSE s)

\* The modal's overlay or its close button: setSelectedInvoice(null)
CloseInvoice ==
    /\ page.route = "/invoices"
    /\ page.selectedInvoice # Null
    /\ PageStep("closeInvoice", 0, [page EXCEPT !.selectedInvoice = Null])

\* fetchInvoiceEmail after its await.
EmailArrives(l, emails) ==
    /\ page.route = "/invoices"
    /\ l \in page.emailLoads
    /\ LET p == [page EXCEPT !.emailLoads = @ \ {l}]
       IN PageStep("emailArrived", [id |-> l.id, emails |-> emails],
                   IF Len(emails) > 0 THEN [p EXCEPT !.invoiceEmail = Some(emails[1])]
                                      ELSE p)

\* fetchInvoiceEmail's catch.
EmailFails(l) ==
    /\ page.route = "/invoices"
    /\ l \in page.emailLoads
    /\ PageStep("emailFailed", [id |-> l.id, emails |-> <<>>],
                [page EXCEPT !.emailLoads = @ \ {l}])

NextEmail ==
    \/ InvoicesMount
    \/ \E l \in page.loads : InvoicesArrive(l, ReviewList)
    \/ \E i \in 1..Len(page.invoices) : HandleSelectInvoice(page.invoices[i])
    \/ CloseInvoice
    \/ \E l \in page.emailLoads : \E emails \in EmailAnswers(l.params) : EmailArrives(l, emails)
    \/ \E l \in page.emailLoads : EmailFails(l)

\* A visit of the Invoices page in which invoices are opened and closed.
SpecEmail == InitAt(InvoicesPage) /\ [][NextEmail]_vars

\* ------------------------------- Vendors page: the negotiation script ----

\* An answer of the page's load with two negotiation opportunities.
TwoOpportunities ==
    [analysis |-> [total_vendors |-> 2], opportunities |-> <<"Acme", "R&D Labs">>]

\* encodeURIComponent over the vendor names in use: "&" becomes %26 and a
\* space %20; letters are kept.
EncodeURIComponent(vendorName) ==
    CASE vendorName = "R&D Labs" -> "R%26D%20Labs"
      [] OTHER -> vendorName

\* `/vendors/${encodeURIComponent(vendorName)}/negotiation-script`
ScriptPath(vendorName) ==
    <<"vendors", EncodeURIComponent(vendorName), "negotiation-script">>

\* What the backend answers to GET path: the script it wrote for that
\* path, or an empty body.
ScriptAnswers(path) == {Some([path |-> path, email_subject |-> "Volume discount"]), Null}

\* The vendor the modal names when the script is not the first to arrive.
VendorSelectedFirst(p, l) ==
    IF p.selectedVendor = Null THEN Some(l.vendorName) ELSE p.selectedVendor

\* setSelectedVendor(vendorName): the vendorName of the call that awaited.
ScriptVendor(p, l) == Some(l.vendorName)

\* fetchNegotiationScript up to its await, from a Get Script button; the
\* opportunities are listed when the page is not loading.
FetchNegotiationScript(vendorName) ==
    /\ page.route = "/vendors"
    /\ ~page.loading
    /\ \E i \in 1..Len(page.opportunities) : page.opportunities[i] = vendorName
    /\ page.scriptIssued < MaxLoads
    /\ PageStep("fetchNegotiationScript", vendorName,
                [page EXCEPT !.scriptIssued = @ + 1,
                             !.scriptLoads = @ \cup {[id |-> page.scriptIssued + 1,
                                                      vendorName |-> vendorName,
                                                      path |-> ScriptPath(vendorName)]}])

\* fetchNegotiationScript after its await: setNegotiationScript(res.data);
\* setSelectedVendor(vendorName), rendered together.
ScriptArrives(l, data) ==
    /\ page.route = "/vendors"
    /\ l \in page.scriptLoads
    /\ PageStep("scriptArrived", [id |-> l.id, data |-> data],
                [page EXCEPT !.scriptLoads = @ \ {l},
                             !.negotiationScript = data,
                             !.selectedVendor = ScriptVendor(page, l)])

\* fetchNegotiationScript's catch: it only logs.
ScriptFails(l) ==
    /\ page.route = "/vendors"
    /\ l \in page.scriptLoads
    /\ PageStep("scriptFailed", [id |-> l.id, data |-> Null],
                [page EXCEPT !.scriptLoads = @ \ {l}])

\* The modal is rendered when selectedVendor && negotiationScript.
ScriptModalShown(p) == p.selectedVendor # Null /\ p.negotiationScript # Null

\* The modal's overlay: setSelectedVendor(null)
CloseScript ==
    /\ page.route = "/vendors"
    /\ ScriptModalShown(page)
    /\ PageStep("closeScript", 0, [page EXCEPT !.selectedVendor = Null])

NextScript ==
    \/ VendorsMount
    \/ \E l \in page.loads, r \in VendorsRequests : VendorsRequestSucceeds(l, r)
    \/ \E l \in page.loads, r \in VendorsRequests : VendorsLoadSucceeds(l, r, TwoOpportunities)
    \/ \E vendorName \in {"Acme", "R&D Labs"} : FetchNegotiationScript(vendorName)
    \/ \E l \in page.scriptLoads : \E data \in ScriptAnswers(l.path) : ScriptArrives(l, data)
    \/ \E l \in page.scriptLoads : ScriptFails(l)
    \/ CloseScript

\* A visit of the Vendors page in which negotiation scripts are asked for.
SpecScript == InitAt(VendorsPage) /\ [][NextScript]_vars

\* -------------------------------------------------------- voice assistant ----

\* useState initial values of VoiceAssistant, which App renders beside the
\* routes, with its isOpen prop (App's showVoiceAssistant), whether the
\* browser has SpeechRecognition (recognitionRef), whether the recognition
\* is running, the last utterance given to speechSynthesis, and the voice
\* command requests in flight.
VoiceAssistant(supported) ==
    [route |-> "*", isOpen |-> FALSE,
     isListening |-> FALSE, transcript |-> "", response |-> Null,
     isProcessing |-> FALSE, error |-> Null,
     recognitionRef |-> supported, recognizing |-> FALSE, spoken |-> Null,
     requests |-> {}, issued |-> 0]

\* What the user may say, and what POST /voice/command may answer:
\* suggestions is optional.
Utterances == {"how much did we spend"}
VoiceResponses ==
    { [response |-> "You spent 100", suggestions |-> Null],
      [response |-> "Two invoices need review", suggestions |-> Some(<<"Show top vendors">>)] }

\* response?.suggestions || [the three built-in suggestions]
Suggestions(p) ==
    LET given == UNION {r.suggestions : r \in p.response}
    IN IF given = Null
       THEN {"How much did we spend?", "Show invoices needing review",
             "What's our cash forecast?"}
       ELSE {The(given)[i] : i \in 1..Len(The(given))}

\* The header button of App: setShowVoiceAssistant(true)
OpenAssistant ==
    /\ page.route = "*"
    /\ ~page.isOpen
    /\ PageStep("open", 0, [page EXCEPT !.isOpen = TRUE])

\* onClose, from the overlay or the close button.
CloseAssistant ==
    /\ page.route = "*"
    /\ page.isOpen
    /\ PageStep("close", 0, [page EXCEPT !.isOpen = FALSE])

\* The microphone button while not listening; disabled={isProcessing}
StartListening ==
    /\ page.route = "*"
    /\ page.isOpen
    /\ ~page.isProcessing
    /\ ~page.isListening
    /\ PageStep("startListening", page.recognitionRef,
                IF page.recognitionRef
                THEN [page EXCEPT !.transcript = "", !.response = Null, !.error = Null,
                                  !.isListening = TRUE, !.recognizing = TRUE]
                ELSE [page EXCEPT !.error = Some("Speech recognition not supported in this browser")])

\* The microphone button while listening: recognition.stop() lets the
\* recognition deliver what it has heard and then end.
StopListening ==
    /\ page.route = "*"
    /\ page.isOpen
    /\ ~page.isProcessing
    /\ page.isListening
    /\ PageStep("stopListening", 0, [page EXCEPT !.isListening = FALSE])

\* processVoiceCommand up to its await.
ProcessVoiceCommand(p, text) ==
    [p EXCEPT !.isProcessing = TRUE,
              !.issued = @ + 1,
              !.requests = @ \cup {[id |-> p.issued + 1, transcript |-> text]}]

\* recognition.onresult
OnResult(text, isFinal) ==
    /\ page.route = "*"
    /\ page.recognizing
    /\ isFinal => page.issued < MaxLoads
    /\ LET t == [page EXCEPT !.transcript = text]
       IN PageStep("onresult", [text |-> text, isFinal |-> isFinal],
                   IF isFinal THEN ProcessVoiceCommand(t, text) ELSE t)

\* recognition.onerror, which the browser follows with onend.
OnSpeechError ==
    /\ page.route = "*"
    /\ page.recognizing
    /\ PageStep("onerror", 0,
                [page EXCEPT !.error = Some("Speech recognition error: no-speech"),
                             !.isListening = FALSE,
                             !.recognizing = FALSE])

\* recognition.onend
OnEnd ==
    /\ page.route = "*"
    /\ page.recognizing
    /\ PageStep("onend", 0, [page EXCEPT !.isListening = FALSE, !.recognizing = FALSE])

\* handleSuggestionClick, from a suggestion button; the buttons have no
\* disabled attribute.
HandleSuggestionClick(suggestion) ==
    /\ page.route = "*"
    /\ page.isOpen
    /\ suggestion \in Suggestions(page)
    /\ page.issued < MaxLoads
    /\ PageStep("handleSuggestionClick", suggestion,
                ProcessVoiceCommand([page EXCEPT !.transcript = suggestion], suggestion))

\* processVoiceCommand after its await: setResponse(result.data), speak, finally.
CommandSucceeds(r, data) ==
    /\ page.route = "*"
    /\ r \in page.requests
    /\ PageStep("commandSucceeded", [id |-> r.id, data |-> Some(data)],
                [page EXCEPT !.requests = @ \ {r},
                             !.response = Some(data),
                             !.spoken = Some(data.response),
                             !.isProcessing = FALSE])

\* processVoiceCommand's catch and finally.
CommandFails(r) ==
    /\ page.route = "*"
    /\ r \in page.requests
    /\ PageStep("commandFailed", [id |-> r.id, data |-> Null],
                [page EXCEPT !.requests = @ \ {r},
                             !.error = Some("Failed to process command"),
                             !.isProcessing = FALSE])

NextVoice ==
    \/ OpenAssistant
    \/ CloseAssistant
    \/ StartListening
    \/ StopListening
    \/ \E text \in Utterances, isFinal \in BOOLEAN : OnResult(text, isFinal)
    \/ OnSpeechError
    \/ OnEnd
    \/ \E suggestion \in Suggestions(page) : HandleSuggestionClick(suggestion)
    \/ \E r \in page.requests, data \in VoiceResponses : CommandSucceeds(r, data)
    \/ \E r \in page.requests : CommandFails(r)

InitVoice == \E supported \in BOOLEAN : InitAt(VoiceAssistant(supported))

\* The voice assistant, in a browser with or without speech recognition.
SpecVoice == InitVoice /\ [][NextVoice]_vars

\* ----------------------------------------------------- next-state relations ----

Within == events < MaxEvents

NextConn ==
    \/ OpenViewer /\ UNCHANGED pageVars
    \/ CloseViewer /\ UNCHANGED pageVars
    \/ Tick /\ UNCHANGED pageVars
    \/ TimerFire /\ UNCHANGED pageVars
    \/ \E s \in SockIds : Within /\ SocketOpened(s) /\ UNCHANGED pageVars
    \/ \E s \in SockIds : Within /\ SocketClosed(s) /\ UNCHANGED pageVars
    \/ \E s \in SockIds : Within /\ SocketFailed(s) /\ UNCHANGED pageVars

NextStream ==
    \/ OpenViewer /\ UNCHANGED pageVars
    \/ \E s \in SockIds : Within /\ SocketOpened(s) /\ UNCHANGED pageVars
    \/ \E s \in SockIds, msg \in HistoryInputs : Within /\ OnHistory(s, msg) /\ UNCHANGED pageVars
    \/ \E s \in SockIds, msg \in LogInputs : Within /\ OnLog(s, msg) /\ UNCHANGED pageVars
    \/ \E s \in SockIds : Within /\ OnProcessingStart(s, "invoice.pdf") /\ UNCHANGED pageVars
    \/ \E s \in SockIds : Within /\ OnProcessingComplete(s) /\ UNCHANGED pageVars
    \/ \E s \in SockIds, type \in IgnoredTypes : Within /\ OnIgnored(s, type) /\ UNCHANGED pageVars

\* The viewer connects, receives a history and then BurstLen log messages.
NextBurst ==
    \/ OpenViewer /\ UNCHANGED pageVars
    \/ \E s \in SockIds : events = 0 /\ SocketOpened(s) /\ UNCHANGED pageVars
    \/ \E s \in SockIds, msg \in HistoryInputs : events = 1 /\ OnHistory(s, msg) /\ UNCHANGED pageVars
    \/ \E s \in SockIds :
          /\ events \in 2..(BurstLen + 1)
          /\ OnLog(s, LogMsg(TRUE, BurstEntry(events)))
          /\ UNCHANGED pageVars

Next == NextConn \/ NextStream

\* The connection life cycle: viewer toggles, socket events, reconnect timers.
SpecConn == Init /\ [][NextConn]_vars

\* The message stream of a viewer that has connected.
SpecStream == Init /\ [][NextStream]_vars

\* A history message followed by a burst of log messages.
SpecBurst == Init /\ [][NextBurst]_vars

Spec == Init /\ [][Next]_vars

\* The life cycle under the browser's guarantees: time passes and a due
\* timer's callback runs.
FairSpecConn ==
    /\ SpecConn
    /\ WF_vars(Tick /\ UNCHANGED pageVars)
    /\ WF_vars(TimerFire /\ UNCHANGED pageVars)

\* ------------------------------------------------------------ properties ----

CloseOps == {"onclose", "onerror"}
LastEntry == ev.data.data
SystemEntries(seq) == {i \in 1..Len(seq) : seq[i].agent = "SYSTEM"}

\* C1: closing the viewer while a reconnect timer is pending leads to no new
\* socket: while the viewer stays closed after such a close, no timer
\* callback opens a connection.
C1_NoConnectAfterClose ==
    ~(~isOpen /\ atClose.timer /\ ev.op = "TimerFire")

\* C2: closing the viewer while its connection is open closes that
\* connection, and no connection is open while the viewer stays closed.
C2_ClosedViewerHasNoOpenSocket ==
    /\ (ev.op = "CloseViewer" /\ atClose.open) => sock[ev.sock] \notin {"connecting", "open"}
    /\ (~isOpen /\ atClose.open) => OpenSockets = {}

\* C3: at most one connection is live (connecting or open) at any moment, and
\* showing the viewer opens one connection, which wsRef then holds.
C3_AtMostOneLive ==
    /\ Cardinality(Live) <= 1
    /\ ev.op = "OpenViewer" => (sock[ev.sock] = "connecting" /\ wsRef = ev.sock)

\* C4: every close event schedules exactly one reconnect timer of exactly
\* ReconnectDelay ms, whatever happened before (also when the socket never
\* opened); only the passing of time changes a pending timer; a timer's
\* callback runs only once it is due and opens exactly one socket; and every
\* close event is followed by such a callback.
C4_Step ==
    /\ ev'.op \in CloseOps => timers' = timers (+) SetToBag({ReconnectDelay})
    /\ ev'.op = "TimerFire" =>
          /\ Due # {}
          /\ Pending' = Pending - 1
          /\ Cardinality(Unclosed') = Cardinality(Unclosed) + 1
    /\ ev'.op = "Tick" =>
          /\ Pending' = Pending
          /\ \A r \in BagToSet(timers) : r > 0 /\ CopiesIn(r - TickMs, timers') = CopiesIn(r, timers)
    /\ ev'.op \notin CloseOps \cup {"TimerFire", "Tick"} => timers' = timers

C4_FixedDelayReconnect ==
    /\ [][C4_Step]_vars
    /\ (ev.op \in CloseOps) ~> (ev.op = "TimerFire")

\* C4 witness: a connection attempt that failed before opening (two losses in
\* a row) has just scheduled the next attempt at the same delay.
C4_Witness ==
    /\ ev.op = "onerror"
    /\ Len(logs) >= 2 /\ logs[Len(logs)] = SysLost /\ logs[Len(logs) - 1] = SysLost
    /\ BagIn(ReconnectDelay, timers)

\* C5: the log buffer never holds more than LogWindow (200) entries.
C5_BufferWithinWindow == Len(logs) <= LogWindow

\* C6: a "log" message leaves the previous buffer with the new entry appended
\* at the end, cut to its most recent LogWindow (200) entries, order kept; and
\* after a history message followed by BurstLen (205) log messages the buffer
\* is exactly the last LogWindow of those log entries, in arrival order.
C6_LogAppendsAndTrims ==
    /\ ev.op = "log" => logs = SliceLast(Append(pre.logs, LastEntry), LogWindow)
    /\ events = BurstLen + 2 =>
           logs = [i \in 1..LogWindow |-> BurstEntry(events - 1 - LogWindow + i)]

\* C6 witness: the last message of the burst arrived at a full buffer, the
\* oldest entry was dropped and the new one is last.
C6_Witness ==
    /\ ev.op = "log"
    /\ events = BurstLen + 2
    /\ Len(pre.logs) = LogWindow
    /\ Len(logs) = LogWindow
    /\ logs[1] = pre.logs[2]
    /\ logs[LogWindow] = LastEntry

\* C7: a "history" message leaves exactly its entries in the buffer (none
\* when it carries no list); nothing from before remains.
C7_HistoryReplaces ==
    ev.op = "history" => logs = (IF ev.data.present THEN ev.data.logs ELSE <<>>)

\* C7 witness: a history arrived at a buffer holding a system entry, and the
\* buffer holds none afterwards.
C7_Witness ==
    /\ ev.op = "history"
    /\ SystemEntries(pre.logs) # {}
    /\ SystemEntries(logs) = {}
    /\ logs # <<>>

\* C8 as claimed: after a log entry containing "Starting" its agent is active,
\* and an agent made active by an earlier "Starting" entry is not active after
\* a log entry for it containing "complete" or "Complete", whatever else that
\* entry contains.
C8_Original ==
    (ev.op = "log" /\ ev.data.present) =>
        /\ Includes(LastEntry.message, Starting) => LastEntry.agent \in activeAgents
        /\ ( /\ LastEntry.agent \in pre.activeAgents
             /\ Includes(LastEntry.message, complete) \/ Includes(LastEntry.message, Complete) )
               => LastEntry.agent \notin activeAgents

\* C8 amended: after a log entry containing "Starting" its agent is active,
\* and after a log entry that contains "complete" or "Complete" and does not
\* contain "Starting", its agent is not active.
C8_StartingWins ==
    (ev.op = "log" /\ ev.data.present) =>
        /\ Includes(LastEntry.message, Starting) => LastEntry.agent \in activeAgents
        /\ ( /\ Includes(LastEntry.message, complete) \/ Includes(LastEntry.message, Complete)
             /\ ~Includes(LastEntry.message, Starting) )
               => LastEntry.agent \notin activeAgents

\* C8 witness: an agent that was active has been removed by a "Complete" entry.
C8_Witness ==
    /\ ev.op = "log" /\ ev.data.present
    /\ LastEntry.message = MsgComplete
    /\ LastEntry.agent \in pre.activeAgents
    /\ LastEntry.agent \notin activeAgents

\* C9: a log entry whose message matches "complete" only when letter case is
\* ignored leaves an active agent active.
CaseOnlyMatch(message) ==
    /\ ~Includes(message, complete)
    /\ ~Includes(message, Complete)
    /\ Includes(ToLowerCase(message), complete)

C9_OtherCaseKeepsActive ==
    (ev.op = "log" /\ ev.data.present /\ CaseOnlyMatch(LastEntry.message)) =>
        (LastEntry.agent \in pre.activeAgents => LastEntry.agent \in activeAgents)

\* C9 witness: "COMPLETED" arrived for an active agent, which is still active.
C9_Witness ==
    /\ ev.op = "log" /\ ev.data.present
    /\ LastEntry.message = MsgCOMPLETED
    /\ LastEntry.agent \in pre.activeAgents
    /\ LastEntry.agent \in activeAgents

\* C10: while the viewer is shown, the indicator says connected exactly when a
\* log-stream connection is open.
C10_IndicatorMatchesConnection ==
    isOpen => (isConnected <=> OpenSockets # {})

\* ------------------------------------------- properties of the pages ----

\* C11: a resolve that removes the last remaining urgent item of a non-empty
\* list starts the celebration exactly once and leaves the list empty; a
\* resolve on an empty list, or one that leaves items behind, starts none.
C11_CelebratesOnce ==
    step.op = "handleResolveItem" =>
        IF Len(before.urgentItems) > 0 /\ WithoutId(before.urgentItems, step.arg) = <<>>
        THEN page.urgentItems = <<>> /\ page.confetti = before.confetti + 1
        ELSE page.confetti = before.confetti

\* C12 as stated: a download request carries start_date or end_date only when
\* both dates are non-empty, and never an empty-string parameter.
C12_Original ==
    step.op = "downloadAuditPack" =>
        /\ (DOMAIN step.arg # {} => before.startDate # "" /\ before.endDate # "")
        /\ \A k \in DOMAIN step.arg : step.arg[k] # ""

\* C12: a download request carries start_date exactly when the start date is
\* non-empty and end_date exactly when the end date is non-empty, each with
\* the field's value and independently of the other; no parameter is empty.
C12_EachDateOnItsOwn ==
    step.op = "downloadAuditPack" =>
        /\ "start_date" \in DOMAIN step.arg <=> before.startDate # ""
        /\ "end_date" \in DOMAIN step.arg <=> before.endDate # ""
        /\ \A k \in DOMAIN step.arg :
              step.arg[k] # "" /\ step.arg[k] = AllParams(before.startDate, before.endDate)[k]

\* A download asked for with a start date and no end date.
C12_Witness ==
    /\ step.op = "downloadAuditPack"
    /\ before.startDate # ""
    /\ before.endDate = ""
    /\ DOMAIN step.arg = {"start_date"}

\* C13: after a copy action the copied indicator is set, stays set until
\* 2000 ms have passed since that action, and is clear once they have passed
\* and the timer callbacks have run; also when copies are less than 2000 ms
\* apart.
C13_IndicatorLastsFullDelay ==
    page.route \in CopyRoutes =>
        \A e \in page.lastCopy :
            /\ e < Units(CopiedDelay) => page.copied
            /\ (e = Units(CopiedDelay) /\ page.copyTimers = EmptyBag) => ~page.copied

\* C14 as stated: when any request of a load of several concurrent requests
\* fails, nothing the load would have set changes (Ops Intelligence, Vendors
\* and Dashboard pages).
C14_Original ==
    (step.op = "failed" \/ (step.op = "loaded" /\ step.arg.caught # {})) =>
        LoadedState(page) = LoadedState(before)

\* C14: when a request of such a load fails and the failure reaches
\* Promise.all, nothing the load would have set changes; the only failure
\* that does not reach it is that of the Dashboard's cash-flow request, after
\* which the load applies the dashboard data with a null cash forecast.
C14_RejectedLoadAppliesNothing ==
    /\ step.op = "failed" => LoadedState(page) = LoadedState(before)
    /\ (step.op = "loaded" /\ step.arg.caught # {}) =>
          /\ page.route = "/dashboard"
          /\ step.arg.caught = {"/cashflow/summary"}
          /\ page.data # Null
          /\ page.cashForecast = Null

\* The Dashboard has data on screen, a reload's cash-flow request is
\* answered, and then its dashboard request fails.
C14_Witness ==
    /\ page.route = "/dashboard"
    /\ step.op = "failed"
    /\ before.data # Null
    /\ before.cashForecast # Null
    /\ \E l \in before.loads : l.id = step.arg.id /\ l.done # {}

\* C15: with no staleness guard, what the Audit and Invoices pages show is
\* always the data of the response that arrived last, whichever request was
\* issued last.
C15_LastResponseWins ==
    /\ page.route = "/audit" => page.report = page.lastAnswer
    /\ page.route = "/invoices" =>
          /\ page.lastAnswer = Null => page.invoices = <<>>
          /\ \A data \in page.lastAnswer : page.invoices = data

\* Two reports were asked for, the second one's response was shown, then the
\* first one's response arrived and replaced it; no load is left in flight.
C15_Witness ==
    /\ page.route = "/audit"
    /\ step.op = "reportArrived"
    /\ step.arg.id < before.shown
    /\ step.arg.id < page.issued
    /\ page.loads = {}
    /\ page.report = Some(step.arg.data)
    /\ page.report # before.report

\* prev without the items whose id is id, computed from the head.
RECURSIVE OthersOf(_, _)
OthersOf(seq, id) ==
    IF seq = <<>> THEN <<>>
    ELSE (IF Head(seq).id = id THEN <<>> ELSE <<Head(seq)>>) \o OthersOf(Tail(seq), id)

\* C16: resolving an urgent item removes exactly the items with that id from
\* the local list, sends no request and leaves dashboard, briefing, loading
\* and error as they were; a load that succeeds afterwards sets the list to
\* the backend's answer, resolved items included.
C16_ResolveIsLocal ==
    /\ step.op = "handleResolveItem" =>
          /\ page.urgentItems = OthersOf(before.urgentItems, step.arg)
          /\ page.requests = before.requests
          /\ page.loads = before.loads
          /\ page.dashboard = before.dashboard
          /\ page.briefing = before.briefing
          /\ page.loading = before.loading
          /\ page.error = before.error
    /\ (page.route = "/ops" /\ step.op = "loaded") =>
          page.urgentItems = step.arg.answer.items

\* An item the user has resolved is back on the list after a reload.
C16_Witness ==
    /\ page.route = "/ops"
    /\ step.op = "loaded"
    /\ \E i \in DOMAIN page.urgentItems :
          /\ page.urgentItems[i].id \in page.resolved
          /\ \A j \in DOMAIN before.urgentItems :
                before.urgentItems[j].id # page.urgentItems[i].id

\* The columns of the board that show client c.
ColumnsOf(grouped, c) ==
    {phase \in DOMAIN grouped :
        \E i \in DOMAIN grouped[phase] : grouped[phase][i] = c}

\* The counts shown in the headers of the first k columns, added up.
RECURSIVE ColumnCounts(_, _)
ColumnCounts(grouped, k) ==
    IF k = 0 THEN 0 ELSE Len(grouped[phases[k]]) + ColumnCounts(grouped, k - 1)

C18_FailedLoadThenRetry ==
    page.route = "/ops" =>
        /\ step.op = "failed" =>
              /\ page.error = Some(LoadFailed)
              /\ ~page.loading
              /\ LoadedState(page) = LoadedState(before)
        /\ step.op \in {"mount", "retry", "refresh"} => page.error = Null
        /\ (step.op = "loaded" /\ step.arg.by = "retry") => page.error = Null

\* The texts JSON.parse accepts and turns into an array.
IsArrayText(json) == ~JsonParse(json).throws /\ JsonParse(json).value.kind = "array"

\* C19: decoding errors_json and items_json never throws and always returns
\* a list, the empty list whenever the text is not valid JSON or is JSON for
\* something that is not an array.
C19_DecodingNeverFails ==
    step.op = "render" =>
        /\ ~step.arg.errors.throws /\ ~step.arg.items.throws
        /\ step.arg.errors.value.kind = "array" /\ step.arg.items.value.kind = "array"
        /\ ~IsArrayText(step.arg.errors_json) => step.arg.errors.value.items = <<>>
        /\ ~IsArrayText(step.arg.items_json) => step.arg.items.value.items = <<>>

\* The panel rendered an invoice whose errors_json is an unterminated array,
\* and one whose items_json is valid JSON for a number.
C19_Witness ==
    /\ step.op = "render"
    /\ \/ step.arg.errors_json = <<"[", "1">> /\ step.arg.errors.value = JsArray(<<>>)
       \/ step.arg.items_json = <<"1">> /\ step.arg.items.value = JsArray(<<>>)

\* C20: the Upload page's processed counter is the number of uploads that
\* have completed successfully since the page was mounted: every upload that
\* succeeds adds exactly one; a failed upload, selecting or removing a file
\* and clearing a result leave it as it is.
C20_CounterCountsUploads ==
    page.route = "/upload" =>
        /\ page.processedCount = page.completed
        /\ step.op = "uploaded" => page.processedCount = before.processedCount + 1
        /\ step.op \in {"uploadFailed", "onDrop", "onloadend", "handleUpload", "clearAll"} =>
              page.processedCount = before.processedCount

\* The second of two successful uploads completes after another one failed.
C20_Witness ==
    /\ page.route = "/upload"
    /\ step.op = "uploaded"
    /\ page.processedCount = 2
    /\ page.started = 3

\* The text of a nullable field, a missing one being the empty text.
TextOf(field) == IF field = Null THEN <<>> ELSE The(field)

\* The invoices the controls ask for: status as selected, and the search
\* text inside the invoice number or the vendor name whatever the case.
AskedFor(invoices, search, statusFilter) ==
    SelectSeq(invoices,
              LAMBDA inv :
                 /\ statusFilter = "all" \/ inv.status = statusFilter
                 /\ \/ Includes(ToLowerCase(TextOf(inv.invoice_number)), ToLowerCase(search))
                    \/ Includes(ToLowerCase(TextOf(inv.vendor_name)), ToLowerCase(search)))

\* C26: on the Invoices page, with an empty search text and the status
\* filter "all" the filtered list is the full list of loaded invoices; in
\* general it is exactly the invoices whose status matches the filter and
\* whose invoice number or vendor name contains the search text whatever the
\* case, also for invoices with a missing number or vendor name.
C26_FilterShowsMatches ==
    page.route = "/invoices" =>
        LET shown == FilteredInvoices(page.invoices, page.search, page.statusFilter)
        IN /\ (page.search = <<>> /\ page.statusFilter = "all") => shown = page.invoices
           /\ shown = AskedFor(page.invoices, page.search, page.statusFilter)

\* C21: in the invoice detail modal the generated email shown belongs to the
\* selected invoice: an email fetched for one invoice is never displayed
\* while another invoice is selected, in whatever order responses arrive.
C21_EmailOfSelectedInvoice ==
    page.route = "/invoices" =>
        \A inv \in page.selectedInvoice, email \in page.invoiceEmail :
            email.invoice_id = inv.id

\* C23: on the Invoices and Audit pages, whose refresh control stays
\* enabled during a load, the loading flag is true whenever a load request
\* is still in flight: completing one of two overlapping loads does not
\* clear the flag while the other is pending.
C23_LoadingWhileInFlight ==
    page.route \in {"/invoices", "/audit"} =>
        (page.loads # {} => page.loading)

\* C22: in the upload zone the image preview corresponds to the selected
\* file: when a second file is dropped, or the selection is cleared, before
\* the first file's preview read finishes, the first file's preview is never
\* shown for the second file or for an empty selection.
C22_PreviewOfSelectedFile ==
    (page.route = "/upload" /\ DropzoneShown /\ page.selectedFile # Null) =>
        \A name \in page.preview : The(page.selectedFile).name = name

\* C27: in the upload zone a processing result and an upload error are never
\* both present, an upload request is only issued while a file is selected,
\* at most one upload is in flight at a time, and the uploading flag is
\* false once the request has settled, whether it succeeded or failed.
C27_UploadZoneInvariants ==
    page.route = "/upload" =>
        /\ ~(page.result # Null /\ page.error # Null)
        /\ step.op = "handleUpload" =>
              /\ before.selectedFile = Some(step.arg)
              /\ \E u \in page.uploads \ before.uploads : u.file = step.arg
        /\ Cardinality(page.uploads) <= 1
        /\ step.op \in {"uploaded", "uploadFailed"} => ~page.uploading
        /\ page.uploads = {} => ~page.uploading

\* The second upload of a visit fails after the first one succeeded and its
\* result was closed.
C27_Witness ==
    /\ page.route = "/upload"
    /\ step.op = "uploadFailed"
    /\ before.uploading
    /\ ~page.uploading
    /\ page.error # Null
    /\ page.result = Null
    /\ page.completed = 1
    /\ page.started = 2

\* C28: on the Vendors page, whenever the negotiation-script modal is
\* displayed, the script it shows is the one fetched for the vendor named in
\* the modal title, in whatever order overlapping script responses arrive;
\* a failed script fetch changes neither the selected vendor nor the stored
\* script.
C28_ScriptOfTitledVendor ==
    page.route = "/vendors" =>
        /\ ScriptModalShown(page) =>
              \A vendorName \in page.selectedVendor, script \in page.negotiationScript :
                  script.path = <<"vendors", EncodeURIComponent(vendorName), "negotiation-script">>
        /\ step.op = "scriptFailed" =>
              /\ page.selectedVendor = before.selectedVendor
              /\ page.negotiationScript = before.negotiationScript

\* The script asked for first arrives last and replaces, title included,
\* the modal of the script asked for second.
C28_Witness ==
    /\ page.route = "/vendors"
    /\ step.op = "scriptArrived"
    /\ ScriptModalShown(before)
    /\ ScriptModalShown(page)
    /\ page.selectedVendor # before.selectedVendor
    /\ page.scriptIssued = 2
    /\ step.arg.id = 1
    /\ page.scriptLoads = {}

\* C24: in the voice assistant at most one voice command request is in
\* flight at a time and the processing indicator is true exactly while a
\* request is in flight: no user action (microphone button, suggestion
\* buttons, speech result) submits a second command before the first has
\* settled.
C24_OneCommandAtATime ==
    page.route = "*" =>
        /\ Cardinality(page.requests) <= 1
        /\ page.isProcessing <=> page.requests # {}

\* ------------------------------------- further properties of the viewer ----

\* The step received a message that cannot be parsed or processed.
C25_Dropped ==
    /\ events' = events + 1
    /\ \/ ev'.op = "ignored"
       \/ ev'.op = "log" /\ ~ev'.data.present

C25_Step ==
    C25_Dropped =>
        /\ logs' = logs
        /\ activeAgents' = activeAgents
        /\ isConnected' = isConnected
        /\ sock' = sock

\* C25: a log-stream message that cannot be parsed or processed (invalid
\* JSON, an unknown type, or a "log" message with no entry payload) is
\* dropped: the log buffer, the active-producer set and the connection state
\* are exactly what they were before the message arrived.
C25_UnprocessableIsDropped == [][C25_Step]_vars

\* C29: the active-producer set of the log viewer is changed only by "log"
\* messages: a history message, a processing_start or processing_complete
\* message, a disconnect, a reconnect and closing or reopening the viewer all
\* leave it unchanged, so a producer that was active when the connection
\* dropped stays active until a later "log" entry for it contains "complete"
\* or "Complete".  pre holds the set as it was before the last step.
C29_OnlyLogsChangeActive ==
    activeAgents # pre.activeAgents =>
        /\ ev.op = "log"
        /\ ev.data.present
        /\ \A a \in activeAgents \ pre.activeAgents :
              /\ ev.data.data.agent = a
              /\ Includes(ev.data.data.message, Starting)
        /\ \A a \in pre.activeAgents \ activeAgents :
              /\ ev.data.data.agent = a
              /\ \/ Includes(ev.data.data.message, complete)
                 \/ Includes(ev.data.data.message, Complete)

\* A producer that started while connected is still active right after the
\* connection dropped.
C29_Witness ==
    /\ ev.op \in CloseOps
    /\ ~isConnected
    /\ activeAgents # {}
    /\ pre.activeAgents = activeAgents

====
